---- MODULE Spec2Model ----
(***************************************************************************)
(* Backend of the netconf-aggregator Grafana data source                    *)
(* (pkg/plugin/datasource.go, pkg/models/settings.go): the query handler,   *)
(* the device data fetcher, the integer extraction, the device-list         *)
(* resource endpoint and the health check.                                  *)
(*                                                                         *)
(* Text.  A Go string is modelled as a sequence of atoms.  An atom is a     *)
(* one-character string ("a", "7", "\"") or a fragment: a literal piece of  *)
(* a format string or a well-known token, kept whole ("device ID is         *)
(* required", "2024-01-01T00:00:00Z").  Fragments hold no digit, quote or   *)
(* backslash that any scan of this model looks for, except where a          *)
(* definition says so.  Concatenation (Sprintf, %s) is \o.                   *)
(*                                                                         *)
(* Integers.  A Go int / int64 is modelled as its canonical decimal         *)
(* numeral (a sequence of digit atoms without leading zeros), because the   *)
(* 64-bit range is beyond the model checker's own integers.                 *)
(***************************************************************************)
EXTENDS Integers, Sequences, FiniteSets, TLC

VARIABLES
    address,      \* Datasource.config.Address
    queries,      \* req.Queries of the QueryData call in progress
    pc,           \* position of the QueryData call
    qi,           \* index of the query the loop is at
    responses,    \* response.Responses, keyed by RefID
    requests,     \* HTTP requests issued to the aggregator, in order
    replies,      \* what the aggregator answered, per query index
    fetched,      \* what GetDeviceData returned, per query index
    series,       \* the aggregator's time series for the queried device
    input,        \* argument of extractFirstInteger
    result,       \* its result
    resPath,      \* req.Path of the CallResource call
    resPc,        \* position of the CallResource call
    resReply,     \* what the aggregator answered to GET /devices
    resResp,      \* the response handed to sender.Send
    settingsDoc,  \* DataSourceInstanceSettings.JSONData of the health request
    healthRes     \* the CheckHealthResult

vars == <<address, queries, pc, qi, responses, requests, replies, fetched,
          series, input, result, resPath, resPc, resReply, resResp,
          settingsDoc, healthRes>>

queryVars == <<queries, pc, qi, responses, replies, fetched, series>>
extractVars == <<input, result>>
resourceVars == <<resPath, resPc, resReply, resResp>>
healthVars == <<settingsDoc, healthRes>>

----------------------------------------------------------------------------
(* Bounds of the model *)

MaxTextLen == 3     \* length of the exhaustively enumerated texts
MaxRun == 20        \* longest digit run among the long inputs
MaxBatch == 2       \* queries in one QueryData call
MaxRecords == 2     \* records in one upstream time series
MaxBodyLen == 3     \* length of an upstream /devices body

None == [none |-> TRUE]

\* A Go map with no entry
EmptyMap == [x \in {} |-> None]

\* m[key] = value
Put(m, key, value) == (key :> value) @@ m

----------------------------------------------------------------------------
(* Text helpers: the Go standard library functions the code calls *)

Digits == {"0", "1", "2", "3", "4", "5", "6", "7", "8", "9"}

IsDigit(c) == c \in Digits

\* strings.HasPrefix
HasPrefix(s, prefix) ==
    /\ Len(s) >= Len(prefix)
    /\ SubSeq(s, 1, Len(prefix)) = prefix

\* strings.Contains: a literal, case-sensitive, unanchored substring test;
\* the empty substring occurs in every string
Contains(s, substr) ==
    \E i \in 0..(Len(s) - Len(substr)) :
        SubSeq(s, i + 1, i + Len(substr)) = substr

\* All texts over an alphabet up to a length
RECURSIVE TextsOfLen(_, _)
TextsOfLen(alphabet, n) ==
    IF n = 0 THEN {<<>>}
    ELSE {<<c>> \o t : c \in alphabet, t \in TextsOfLen(alphabet, n - 1)}

TextsUpTo(alphabet, n) == UNION {TextsOfLen(alphabet, k) : k \in 0..n}

RECURSIVE Rep(_, _)
Rep(c, n) == IF n = 0 THEN <<>> ELSE <<c>> \o Rep(c, n - 1)

\* fmt's %d of a small non-negative int
RECURSIVE FormatInt(_)
FormatInt(n) ==
    LET d == CHOOSE c \in Digits :
                 c = <<"0", "1", "2", "3", "4", "5", "6", "7", "8", "9">>[(n % 10) + 1]
    IN  IF n < 10 THEN <<d>> ELSE FormatInt(n \div 10) \o <<d>>

----------------------------------------------------------------------------
(* Decimal numerals: the model of Go's int on a 64-bit build *)

\* math.MaxInt64 = 9223372036854775807
MaxInt64 == <<"9", "2", "2", "3", "3", "7", "2", "0", "3", "6",
              "8", "5", "4", "7", "7", "5", "8", "0", "7">>

Zero == <<"0">>

DigitVal(c) == CHOOSE v \in 0..9 : FormatInt(v) = <<c>>

\* The numeral of a non-empty digit string's value: leading zeros dropped
RECURSIVE StripZeros(_)
StripZeros(ds) ==
    IF Len(ds) > 1 /\ Head(ds) = "0" THEN StripZeros(Tail(ds)) ELSE ds

\* a <= b for two numerals
NumLE(a, b) ==
    \/ Len(a) < Len(b)
    \/ /\ Len(a) = Len(b)
       /\ \/ a = b
          \/ \E i \in 1..Len(a) :
                /\ SubSeq(a, 1, i - 1) = SubSeq(b, 1, i - 1)
                /\ DigitVal(a[i]) < DigitVal(b[i])

\* strconv.Atoi with its error dropped, as at datasource.go:226: on a value
\* out of range ParseInt returns the largest int together with ErrRange
Atoi(match) ==
    LET n == StripZeros(match)
    IN  IF NumLE(n, MaxInt64) THEN n ELSE MaxInt64

----------------------------------------------------------------------------
(* extractFirstInteger *)

RECURSIVE SkipNonDigits(_)
SkipNonDigits(s) ==
    IF s = <<>> \/ IsDigit(Head(s)) THEN s ELSE SkipNonDigits(Tail(s))

RECURSIVE TakeDigits(_)
TakeDigits(s) ==
    IF s = <<>> \/ ~IsDigit(Head(s)) THEN <<>>
    ELSE <<Head(s)>> \o TakeDigits(Tail(s))

\* regexp.MustCompile(`\d+`).FindString: the leftmost match, taken greedily;
\* the empty string when nothing matches
FindString(s) == TakeDigits(SkipNonDigits(s))

extractFirstInteger(text) ==
    LET match == FindString(text)
    IN  IF match = <<>> THEN Zero ELSE Atoi(match)

----------------------------------------------------------------------------
(* Inputs of the extraction *)

ExtractAlphabet == {"a", "-", ".", "0", "7"}

LongRuns ==
    {pre \o Rep(d, k) \o suf :
        pre \in {<<>>, <<"<", "v", ">">>},
        d \in {"0", "1", "9"},
        k \in 1..MaxRun,
        suf \in {<<>>, <<".", "5">>}}

\* the largest int and its successor, inside a tag
Boundary ==
    {<<"<", "v", ">">> \o MaxInt64 \o <<"<">>,
     <<"<", "v", ">">> \o SubSeq(MaxInt64, 1, Len(MaxInt64) - 1) \o <<"8", "<">>}

ExtractInputs == TextsUpTo(ExtractAlphabet, MaxTextLen) \cup LongRuns \cup Boundary

----------------------------------------------------------------------------
(* Decoded JSON: what encoding/json sees of a document.  A field of an       *)
(* object is absent, null, a string, or a value of another JSON type.        *)

JAbsent == [k |-> "absent"]
JNull == [k |-> "null"]
JNumber == [k |-> "number"]
JString(s) == [k |-> "string", s |-> s]

IsString(v) == v.k = "string"

\* json.Unmarshal into a Go string field: an absent or null field leaves the
\* zero value "", any non-string value is an UnmarshalTypeError
Field(v) ==
    CASE v.k = "string" -> [err |-> FALSE, s |-> v.s]
      [] v.k \in {"absent", "null"} -> [err |-> FALSE, s |-> <<>>]
      [] OTHER -> [err |-> TRUE, s |-> <<>>]

----------------------------------------------------------------------------
(* Program constants *)

StatusBadRequest == 400            \* backend.StatusBadRequest
StatusInternal == 500              \* backend.StatusInternal
StatusOK == 200                    \* http.StatusOK
StatusNotFound == 404              \* http.StatusNotFound
StatusInternalServerError == 500   \* http.StatusInternalServerError
TimeoutSeconds == 10               \* http.Client.Timeout

----------------------------------------------------------------------------
(* queryModel and its decoding *)

TypeInt == <<"int">>
TypeContains == <<"contains">>

\* json.Unmarshal(q.JSON, &qm): doc is the query's JSON document, "malformed"
\* when it is not JSON at all
UnmarshalQuery(doc) ==
    IF doc.k = "malformed"
    THEN [err |-> TRUE, text |-> <<"invalid character 'x' looking for beginning of value">>]
    ELSE LET t == Field(doc.type)
             c == Field(doc.containsString)
             x == Field(doc.xpath)
             d == Field(doc.device)
         IN  IF t.err \/ c.err \/ x.err \/ d.err
             THEN [err |-> TRUE,
                   text |-> <<"json: cannot unmarshal number into Go struct field of type string">>]
             ELSE [err |-> FALSE,
                   qm |-> [Type |-> t.s, ContainsString |-> c.s,
                           QueryText |-> x.s, Device |-> d.s]]

----------------------------------------------------------------------------
(* backend.DataResponse *)

NoError == [nil |-> TRUE]
ErrorOf(message) == [nil |-> FALSE, msg |-> message]

\* backend.ErrDataResponse
ErrDataResponse(status, message) ==
    [Status |-> status, Error |-> ErrorOf(message), Frames |-> <<>>]

----------------------------------------------------------------------------
(* DeviceDataFetcher.GetDeviceData *)

SchemeHttp == <<"h", "t", "t", "p", ":", "/", "/">>
SchemeHttps == <<"h", "t", "t", "p", "s", ":", "/", "/">>

Failure(text) == [ok |-> FALSE, err |-> text]
Success(points) == [ok |-> TRUE, data |-> points]
Passed == [ok |-> TRUE]

\* The checks made before the request is built (datasource.go:125-139)
PreconditionsNoDevice(addr, deviceID, xpathQuery) ==
    IF addr = <<>>
    THEN Failure(<<"datasource address is not configured">>)
    ELSE IF ~HasPrefix(addr, SchemeHttp) /\ ~HasPrefix(addr, SchemeHttps)
    THEN Failure(<<"datasource address must include http:// or https://">>)
    ELSE IF xpathQuery = <<>>
    THEN Failure(<<"xpathQuery is required">>)
    ELSE Passed
Preconditions(addr, deviceID, xpathQuery) ==
    IF addr = <<>>
    THEN Failure(<<"datasource address is not configured">>)
    ELSE IF ~HasPrefix(addr, SchemeHttp) /\ ~HasPrefix(addr, SchemeHttps)
    THEN Failure(<<"datasource address must include http:// or https://">>)
    ELSE IF deviceID = <<>>
    THEN Failure(<<"device ID is required">>)
    ELSE IF xpathQuery = <<>>
    THEN Failure(<<"xpathQuery is required">>)
    ELSE Passed

\* The request of datasource.go:141-163.  json.Marshal of a map of strings
\* does not fail, and http.NewRequest accepts every URL the addresses and
\* devices of this model make
TimeseriesRequest(addr, deviceID, xpathQuery) ==
    [method |-> "POST",
     url |-> addr \o <<"/timeseries/">> \o deviceID,
     body |-> [xpathQuery |-> xpathQuery],
     timeout |-> TimeoutSeconds]

\* url.Error.Error(), the text of every error of http.Client.Do / Get:
\* the operation, the quoted URL, the cause
TransportErrorText(op, url, cause) ==
    <<op, " ", "\"">> \o url \o <<"\"", ": ">> \o cause

\* One upstream record mapped by query type (datasource.go:196-213)
UnsupportedType(qtype) == Failure(<<"unsupported query type: ">> \o qtype)

Point(timestamp, goType, v) ==
    [timestamp |-> timestamp, value |-> [goType |-> goType, v |-> v]]

\* processedData = append(processedData, point)
AppendPointDedup(processedData, point) ==
    IF \E k \in 1..Len(processedData) :
           processedData[k].timestamp = point.timestamp
    THEN processedData
    ELSE Append(processedData, point)
AppendPoint(processedData, point) == Append(processedData, point)

\* The loop of datasource.go:188-214 over the records not yet visited
RECURSIVE ProcessRecords(_, _, _, _)
ProcessRecords(records, qtype, qstring, processedData) ==
    IF records = <<>> THEN Success(processedData)
    ELSE LET item == Head(records)
             rest == Tail(records)
         IN  IF ~IsString(item.xml)
             THEN ProcessRecords(rest, qtype, qstring, processedData)
             ELSE IF qtype = TypeInt
             THEN ProcessRecords(rest, qtype, qstring,
                      AppendPoint(processedData,
                                  Point(item.timestamp, "int",
                                        extractFirstInteger(item.xml.s))))
             ELSE IF qtype = TypeContains
             THEN ProcessRecords(rest, qtype, qstring,
                      AppendPoint(processedData,
                                  Point(item.timestamp, "bool",
                                        Contains(item.xml.s, qstring))))
             ELSE UnsupportedType(qtype)

\* GetDeviceData from the answer of client.Do on (datasource.go:165-216).
\* reply.k = "transport": client.Do failed (the timeout included);
\* reply.k = "read": io.ReadAll failed; otherwise reply.status and
\* reply.body, whose text is the bytes read and whose json is what
\* json.Unmarshal makes of them: the records, or None when the bytes are
\* not a JSON array of objects
StatusErrorNoBody(status, bodyText) ==
    Failure(<<"API returned status ">> \o FormatInt(status))
StatusError(status, bodyText) ==
    Failure(<<"API returned status ">> \o FormatInt(status) \o <<": ">> \o bodyText)

CompleteFetch(request, qtype, qstring, reply) ==
    IF reply.k = "transport"
    THEN Failure(<<"failed to fetch device data: ">>
                 \o TransportErrorText("Post", request.url, reply.cause))
    ELSE IF reply.k = "read"
    THEN Failure(<<"failed to read response: ">> \o reply.cause)
    ELSE IF reply.status # StatusOK
    THEN StatusError(reply.status, reply.body.text)
    ELSE IF reply.body.json = None
    THEN Failure(<<"failed to parse response JSON: ">>
                 \o <<"invalid character '<' looking for beginning of value">>)
    ELSE ProcessRecords(reply.body.json.records, qtype, qstring, <<>>)

----------------------------------------------------------------------------
(* Idle values of the parts a specification leaves alone *)

QueryIdle ==
    /\ queries = <<>>
    /\ pc = "idle"
    /\ qi = 0
    /\ responses = EmptyMap
    /\ replies = EmptyMap
    /\ fetched = EmptyMap
    /\ series = None

ExtractIdle == input = <<>> /\ result = None

ResourceIdle ==
    /\ resPath = <<>>
    /\ resPc = "idle"
    /\ resReply = None
    /\ resResp = None

HealthIdle == settingsDoc = None /\ healthRes = None

----------------------------------------------------------------------------
(* Datasource.QueryData: one query after its fetch *)

\* time.Time as days since 0001-01-01 and seconds of the day; the zero
\* value is 0001-01-01T00:00:00Z
ZeroTime == [day |-> 0, sec |-> 0]

T1 == <<"2024-01-01T00:00:00Z">>
T2 == <<"2024-01-02T00:00:00Z">>
NotATime == <<"yesterday">>

\* time.Parse(time.RFC3339, s) on the timestamps of the model: the instant,
\* or the zero time together with an error
ParseRFC3339(s) ==
    CASE s = T1 -> [err |-> FALSE, time |-> [day |-> 738885, sec |-> 0]]
      [] s = T2 -> [err |-> FALSE, time |-> [day |-> 738886, sec |-> 0]]
      [] OTHER -> [err |-> TRUE, time |-> ZeroTime]

Returned(response) == [panic |-> FALSE, response |-> response]
\* a failed type assertion without ", ok" panics
Panic == [panic |-> TRUE]

\* data.NewFrame("response") with the two fields of datasource.go:107-110
Frame(timestamps, valueType, values) ==
    [Name |-> "response",
     Fields |-> << [Name |-> "time", Type |-> "[]time.Time", Values |-> timestamps],
                   [Name |-> "value", Type |-> valueType, Values |-> values] >>]

\* datasource.go:96-105: the rows of the frame
TimestampsSkipUnparsed(deviceData) ==
    LET parsed == SelectSeq(deviceData,
                            LAMBDA item : ~ParseRFC3339(item.timestamp.s).err)
    IN  [k \in 1..Len(parsed) |-> ParseRFC3339(parsed[k].timestamp.s).time]
Timestamps(deviceData) ==
    [k \in 1..Len(deviceData) |-> ParseRFC3339(deviceData[k].timestamp.s).time]

Values(deviceData, goType) ==
    [k \in 1..Len(deviceData) |-> [goType |-> goType, v |-> deviceData[k].value.v]]

\* datasource.go:78-114, from the fetcher's result on
FinishQuery(qm, fetch) ==
    IF ~fetch.ok
    THEN Returned(ErrDataResponse(StatusInternal,
                                  <<"data fetch error: ">> \o fetch.err))
    ELSE IF qm.Type # TypeInt /\ qm.Type # TypeContains
    THEN Returned(ErrDataResponse(StatusBadRequest,
                                  <<"unsupported query type: ">> \o qm.Type))
    ELSE IF \E k \in 1..Len(fetch.data) :
                \/ ~IsString(fetch.data[k].timestamp)
                \/ fetch.data[k].value.goType #
                      (IF qm.Type = TypeInt THEN "int" ELSE "bool")
    THEN Panic
    ELSE Returned([Status |-> 0, Error |-> NoError,
                   Frames |-> << Frame(Timestamps(fetch.data),
                                       IF qm.Type = TypeInt THEN "[]int64" ELSE "[]bool",
                                       Values(fetch.data,
                                              IF qm.Type = TypeInt THEN "int64" ELSE "bool")) >>])

----------------------------------------------------------------------------
(* Inputs of the query handler *)

Ftp == <<"f", "t", "p", ":", "/", "/", "h">>
Http == SchemeHttp \o <<"a">>
Https == SchemeHttps \o <<"a">>

Addresses == {<<>>, Ftp, Http, Https}

\* The addresses of the query handler's runs: one of each kind
QueryAddresses == {<<>>, Ftp, Http}

RefIDs == <<"A", "B", "C", "D">>

Device1 == <<"d", "1">>
XPath1 == <<"/", "x">>
Needle == <<"a">>

QueryDoc(type, containsString, xpath, device) ==
    [k |-> "object", type |-> type, containsString |-> containsString,
     xpath |-> xpath, device |-> device]

QueryDocs ==
    { [k |-> "malformed"],
      QueryDoc(JString(TypeInt), JNull, JString(XPath1), JAbsent),
      QueryDoc(JString(TypeInt), JAbsent, JString(<<>>), JString(Device1)),
      QueryDoc(JString(TypeInt), JAbsent, JString(XPath1), JString(Device1)),
      QueryDoc(JString(TypeContains), JString(Needle), JString(XPath1), JString(Device1)),
      QueryDoc(JString(TypeContains), JAbsent, JString(XPath1), JString(Device1)),
      QueryDoc(JString(<<"float">>), JAbsent, JString(XPath1), JString(Device1)) }

RECURSIVE SeqsOfLen(_, _)
SeqsOfLen(S, n) ==
    IF n = 0 THEN {<<>>}
    ELSE {<<x>> \o t : x \in S, t \in SeqsOfLen(S, n - 1)}

SeqsUpTo(S, n) == UNION {SeqsOfLen(S, k) : k \in 0..n}

Batches ==
    {[i \in 1..Len(docs) |-> [RefID |-> RefIDs[i], JSON |-> docs[i]]] :
        docs \in SeqsUpTo(QueryDocs, MaxBatch) \ {<<>>}}

Xml42 == <<"<", "a", ">", "4", "2">>
XmlNoDigit == <<"<", "b", "/", ">">>

Record(timestamp, xml) == [timestamp |-> timestamp, xml |-> xml]

Records ==
    { Record(JString(T2), JString(Xml42)),
      Record(JString(NotATime), JString(XmlNoDigit)),
      Record(JString(T1), JAbsent),
      Record(JAbsent, JString(Xml42)) }

SeriesChoices == SeqsUpTo(Records, MaxRecords)

Body(text, json) == [text |-> text, json |-> json]

HttpReplyOf(status, body) == [k |-> "http", status |-> status, body |-> body]

\* What one POST /timeseries/{device} can meet
FailureReplies ==
    { [k |-> "transport", cause |-> <<"context deadline exceeded">>],
      [k |-> "read", cause |-> <<"unexpected EOF">>],
      HttpReplyOf(500, Body(<<"b", "o", "o", "m">>, None)),
      HttpReplyOf(StatusOK, Body(<<"<", "h", "t", "m", "l", ">">>, None)) }

SeriesReply(s) ==
    HttpReplyOf(StatusOK, Body(<<"[", "...", "]">>, [records |-> s]))

----------------------------------------------------------------------------
(* The query handler as a state machine *)

Init ==
    /\ address \in QueryAddresses
    /\ requests = <<>>
    /\ QueryIdle
    /\ ExtractIdle
    /\ ResourceIdle
    /\ HealthIdle

\* The host calls QueryData with a batch (datasource.go:64-66)
QueryData ==
    /\ pc = "idle"
    /\ \E batch \in Batches :
          /\ queries' = batch
          /\ responses' = EmptyMap
          /\ qi' = 1
          /\ pc' = "loop"
    /\ UNCHANGED <<address, requests, replies, fetched, series,
                   extractVars, resourceVars, healthVars>>

\* One iteration up to the HTTP request (datasource.go:68-77, 123-165)
BeginQuery ==
    /\ pc = "loop"
    /\ qi <= Len(queries)
    /\ LET q == queries[qi]
           um == UnmarshalQuery(q.JSON)
       IN  IF um.err
           THEN /\ responses' = Put(responses, q.RefID,
                        ErrDataResponse(StatusBadRequest,
                                        <<"json unmarshal: ">> \o um.text))
                /\ qi' = qi + 1
                /\ UNCHANGED <<pc, requests, fetched>>
           ELSE LET pre == Preconditions(address, um.qm.Device, um.qm.QueryText)
                IN  IF ~pre.ok
                    THEN /\ fetched' = Put(fetched, qi, pre)
                         /\ responses' = Put(responses, q.RefID,
                                             FinishQuery(um.qm, pre).response)
                         /\ qi' = qi + 1
                         /\ UNCHANGED <<pc, requests>>
                    ELSE /\ requests' = Append(requests,
                                [query |-> qi,
                                 request |-> TimeseriesRequest(address, um.qm.Device,
                                                               um.qm.QueryText)])
                         /\ pc' = "await"
                         /\ UNCHANGED <<qi, responses, fetched>>
    /\ UNCHANGED <<address, queries, replies, series,
                   extractVars, resourceVars, healthVars>>

\* The rest of the iteration, from the answer of client.Do on
\* (datasource.go:165-216, 78-115)
CompleteQueryRetrying(reply) ==
    LET q == queries[qi]
        qm == UnmarshalQuery(q.JSON).qm
        fetch == CompleteFetch(requests[Len(requests)].request,
                               qm.Type, qm.ContainsString, reply)
        end == FinishQuery(qm, fetch)
    IN  /\ replies' = Put(replies, qi, reply)
        /\ fetched' = Put(fetched, qi, fetch)
        /\ IF reply.k = "transport"
           THEN /\ pc' = "loop"
                /\ UNCHANGED <<qi, responses>>
           ELSE IF end.panic
           THEN /\ pc' = "panicked"
                /\ UNCHANGED <<qi, responses>>
           ELSE /\ responses' = Put(responses, q.RefID, end.response)
                /\ qi' = qi + 1
                /\ pc' = "loop"
CompleteQuery(reply) ==
    LET q == queries[qi]
        qm == UnmarshalQuery(q.JSON).qm
        fetch == CompleteFetch(requests[Len(requests)].request,
                               qm.Type, qm.ContainsString, reply)
        end == FinishQuery(qm, fetch)
    IN  /\ replies' = Put(replies, qi, reply)
        /\ fetched' = Put(fetched, qi, fetch)
        /\ IF end.panic
           THEN /\ pc' = "panicked"
                /\ UNCHANGED <<qi, responses>>
           ELSE /\ responses' = Put(responses, q.RefID, end.response)
                /\ qi' = qi + 1
                /\ pc' = "loop"

\* The request fails, or the aggregator answers something else than its
\* time series
HttpFailure ==
    /\ pc = "await"
    /\ \E reply \in FailureReplies : CompleteQuery(reply)
    /\ UNCHANGED <<address, queries, requests, series,
                   extractVars, resourceVars, healthVars>>

\* The aggregator answers 200 with the device's time series, the same for
\* every request of the batch
HttpSeries ==
    /\ pc = "await"
    /\ \E s \in (IF series = None THEN SeriesChoices ELSE {series.records}) :
          /\ series' = [records |-> s]
          /\ CompleteQuery(SeriesReply(s))
    /\ UNCHANGED <<address, queries, requests,
                   extractVars, resourceVars, healthVars>>

\* return response, nil (datasource.go:116)
Return ==
    /\ pc = "loop"
    /\ qi > Len(queries)
    /\ pc' = "done"
    /\ UNCHANGED <<address, queries, qi, responses, requests, replies, fetched,
                   series, extractVars, resourceVars, healthVars>>

Next == QueryData \/ BeginQuery \/ HttpFailure \/ HttpSeries \/ Return

Spec == Init /\ [][Next]_vars

----------------------------------------------------------------------------
(* Properties of the query handler (checked under Spec) *)

\* The query model of the i-th query, when its JSON decodes
Decodes(i) == ~UnmarshalQuery(queries[i].JSON).err
ModelOf(i) == UnmarshalQuery(queries[i].JSON).qm

\* The i-th query has its response recorded
Recorded(i) == queries[i].RefID \in DOMAIN responses
ResponseOf(i) == responses[queries[i].RefID]

\* The HTTP requests issued for the i-th query
RequestsFor(i) == {k \in 1..Len(requests) : requests[k].query = i}

Supported(type) == type \in {TypeInt, TypeContains}

\* An address that starts with neither scheme
LacksScheme(a) ==
    \A p \in {SchemeHttp, SchemeHttps} :
        ~(Len(a) >= Len(p) /\ \A k \in 1..Len(p) : a[k] = p[k])

\* The response the i-th query gets when it is the only query of its batch
\* and meets the same answer of the aggregator
AloneResponse(i) ==
    LET um == UnmarshalQuery(queries[i].JSON)
    IN  IF um.err
        THEN ErrDataResponse(StatusBadRequest, <<"json unmarshal: ">> \o um.text)
        ELSE IF i \in DOMAIN replies
        THEN FinishQuery(um.qm,
                 CompleteFetch(TimeseriesRequest(address, um.qm.Device, um.qm.QueryText),
                               um.qm.Type, um.qm.ContainsString,
                               replies[i])).response
        ELSE FinishQuery(um.qm,
                 Preconditions(address, um.qm.Device, um.qm.QueryText)).response

\* C1: QueryData isolates the queries of a batch: the call ends by returning
\* a response under every query's refId, each the response the query would
\* get alone; no query's outcome aborts the call.
C1_BatchIsolation ==
    /\ pc # "panicked"
    /\ pc = "done" =>
          \A i \in 1..Len(queries) :
              Recorded(i) /\ ResponseOf(i) = AloneResponse(i)

\* C2: a query whose fetch violates a precondition of GetDeviceData fails
\* with the error of that precondition (empty address: "not configured";
\* address without http:// or https://: "must include ..."; empty deviceID
\* or xpathQuery: an error naming the field) and no HTTP request is issued
\* for it.
C2_PreconditionsNoNetwork ==
    \A i \in 1..Len(queries) :
        Decodes(i) =>
            LET qm == ModelOf(i)
                violated == \/ address = <<>>
                            \/ LacksScheme(address)
                            \/ qm.Device = <<>>
                            \/ qm.QueryText = <<>>
            IN  /\ violated => RequestsFor(i) = {}
                /\ (violated /\ i < qi) =>
                      /\ i \in DOMAIN fetched
                      /\ ~fetched[i].ok
                      /\ address = <<>> =>
                            fetched[i].err = <<"datasource address is not configured">>
                      /\ (address # <<>> /\ LacksScheme(address)) =>
                            fetched[i].err =
                                <<"datasource address must include http:// or https://">>
                      /\ (address # <<>> /\ ~LacksScheme(address)) =>
                            fetched[i].err =
                                IF qm.Device = <<>> THEN <<"device ID is required">>
                                ELSE <<"xpathQuery is required">>

\* C2 witness: in one batch a query with an empty device failed without a
\* request while another query reached the aggregator
C2_Witness ==
    \E i, j \in 1..Len(queries) :
        /\ Decodes(i) /\ ModelOf(i).Device = <<>>
        /\ i \in DOMAIN fetched
        /\ fetched[i] = Failure(<<"device ID is required">>)
        /\ RequestsFor(i) = {}
        /\ RequestsFor(j) # {}

\* C3: a query of a type other than int and contains gets a bad-request
\* response whatever the aggregator returns; stated for the answer most
\* favourable to the claim, a 200 with a well-formed JSON array.
C3_UnsupportedTypeIsBadRequest ==
    \A i \in 1..Len(queries) :
        ( /\ Decodes(i) /\ ~Supported(ModelOf(i).Type)
          /\ Recorded(i) /\ i \in DOMAIN replies
          /\ replies[i].k = "http" /\ replies[i].status = StatusOK
          /\ replies[i].body.json # None )
        => ResponseOf(i).Status = StatusBadRequest

\* The response reports a configuration or a client error
ConfigOrClientError(response) ==
    /\ response.Error # NoError
    /\ \E text \in { <<"json unmarshal: ">>,
                     <<"datasource address is not configured">>,
                     <<"datasource address must include http:// or https://">>,
                     <<"device ID is required">>,
                     <<"xpathQuery is required">>,
                     <<"unsupported query type: ">> } :
           Contains(response.Error.msg, text)

\* C4: a query that ends with a configuration or client error (address,
\* query JSON, query type, required field) had no HTTP request issued.
C4_ClientErrorsBeforeNetwork ==
    \A i \in 1..Len(queries) :
        (Recorded(i) /\ ConfigOrClientError(ResponseOf(i))) => RequestsFor(i) = {}

\* C5: an answer with a status other than 200 fails the fetch with an error
\* that carries the status code and ends with the upstream body as it is,
\* and every fetch failure is recorded as a server-error response carrying
\* the error text and no frame.
C5_UpstreamStatusIsServerError ==
    \A i \in DOMAIN fetched :
        /\ (i \in DOMAIN replies /\ replies[i].k = "http"
                /\ replies[i].status # StatusOK) =>
              /\ ~fetched[i].ok
              /\ Contains(fetched[i].err, FormatInt(replies[i].status))
              /\ LET e == fetched[i].err
                     b == replies[i].body.text
                 IN  Len(e) > Len(b) /\ SubSeq(e, Len(e) - Len(b) + 1, Len(e)) = b
        /\ ~fetched[i].ok =>
              /\ Recorded(i)
              /\ ResponseOf(i).Status = StatusInternal
              /\ ResponseOf(i).Frames = <<>>
              /\ ResponseOf(i).Error # NoError
              /\ Contains(ResponseOf(i).Error.msg, fetched[i].err)

\* C5 witness: the aggregator answered 500 "boom" and the query got a
\* server error
C5_Witness ==
    \E i \in DOMAIN replies :
        /\ replies[i].k = "http" /\ replies[i].status = 500
        /\ replies[i].body.text = <<"b", "o", "o", "m">>
        /\ Recorded(i)
        /\ ResponseOf(i).Status = StatusInternal

\* C9: a contains query with a missing or empty containsString is not
\* evaluated (no frame holding a containment value is recorded for it), and
\* an int query's fetch does not depend on its containsString.
C9_ContainsRequiresString ==
    \A i \in 1..Len(queries) :
        (Decodes(i) /\ Recorded(i)) =>
            /\ (ModelOf(i).Type = TypeContains /\ ModelOf(i).ContainsString = <<>>)
                  => \A f \in 1..Len(ResponseOf(i).Frames) :
                         ResponseOf(i).Frames[f].Fields[2].Values = <<>>
            /\ (ModelOf(i).Type = TypeInt /\ i \in DOMAIN replies) =>
                  fetched[i] = CompleteFetch(requests[CHOOSE k \in RequestsFor(i) : TRUE].request,
                                             TypeInt, Needle, replies[i])

\* The records of an answer that carry a string xml field, in upstream order
WithXml(records) == SelectSeq(records, LAMBDA r : r.xml.k = "string")

\* C10: after a successful fetch for a supported type the extracted points
\* are the upstream records with a string xml field, one point each, in
\* upstream order, and the frame has one row per point in that order.
C10_PointsFollowUpstreamRecords ==
    \A i \in DOMAIN fetched :
        (fetched[i].ok /\ Supported(ModelOf(i).Type)) =>
            LET kept == WithXml(replies[i].body.json.records)
                points == fetched[i].data
                type == ModelOf(i).Type
            IN  /\ Len(points) = Len(kept)
                /\ \A k \in 1..Len(kept) :
                      /\ points[k].timestamp = kept[k].timestamp
                      /\ points[k].value.v =
                            IF type = TypeInt
                            THEN extractFirstInteger(kept[k].xml.s)
                            ELSE Contains(kept[k].xml.s, ModelOf(i).ContainsString)
                /\ Recorded(i) =>
                      LET fields == ResponseOf(i).Frames[1].Fields
                      IN  /\ Len(ResponseOf(i).Frames) = 1
                          /\ DOMAIN fields[1].Values = 1..Len(kept)
                          /\ DOMAIN fields[2].Values = 1..Len(kept)
                          /\ \A k \in 1..Len(kept) :
                                /\ fields[2].Values[k].v = points[k].value.v
                                /\ fields[1].Values[k] =
                                      ParseRFC3339(kept[k].timestamp.s).time

\* C10 witness: a frame was built from an answer of which one record lacks
\* a string xml field and is skipped while another is kept
C10_Witness ==
    \E i \in DOMAIN fetched :
        /\ fetched[i].ok /\ Supported(ModelOf(i).Type) /\ Recorded(i)
        /\ LET records == replies[i].body.json.records
           IN  /\ Len(WithXml(records)) < Len(records)
               /\ Len(WithXml(records)) >= 1
               /\ Len(ResponseOf(i).Frames) = 1

\* C12: a recorded response without error holds exactly one frame with
\* exactly two columns, "time" and "value", of equal length, whose values are
\* all int64 when the query's type is "int" and all bool when it is
\* "contains" (never both in one frame); a response with an error holds no
\* frame.
C12_OneHomogeneousFrame ==
    \A i \in 1..Len(queries) :
        Recorded(i) =>
            LET r == ResponseOf(i)
            IN  IF r.Error # NoError
                THEN r.Frames = <<>>
                ELSE /\ Decodes(i)
                     /\ Supported(ModelOf(i).Type)
                     /\ Len(r.Frames) = 1
                     /\ Len(r.Frames[1].Fields) = 2
                     /\ LET time == r.Frames[1].Fields[1]
                            value == r.Frames[1].Fields[2]
                            goType == IF ModelOf(i).Type = TypeInt
                                      THEN "int64" ELSE "bool"
                        IN  /\ time.Name = "time"
                            /\ value.Name = "value"
                            /\ time.Type = "[]time.Time"
                            /\ value.Type = "[]" \o goType
                            /\ DOMAIN time.Values = DOMAIN value.Values
                            /\ \A k \in DOMAIN value.Values :
                                   /\ value.Values[k].goType = goType
                                   /\ value.Values[k].v \in
                                         (IF goType = "bool" THEN BOOLEAN
                                          ELSE Seq(Digits))
                                   /\ fetched[i].data[k].value.goType =
                                         (IF goType = "bool" THEN "bool" ELSE "int")

\* C12 witness: one call recorded a frame of two int64 rows for one query
\* and a frame of two bool rows for the other
C12_Witness ==
    /\ \E i \in 1..Len(queries) :
          /\ Recorded(i) /\ Len(ResponseOf(i).Frames) = 1
          /\ ResponseOf(i).Frames[1].Fields[2].Type = "[]int64"
          /\ Len(ResponseOf(i).Frames[1].Fields[2].Values) = 2
    /\ \E i \in 1..Len(queries) :
          /\ Recorded(i) /\ Len(ResponseOf(i).Frames) = 1
          /\ ResponseOf(i).Frames[1].Fields[2].Type = "[]bool"
          /\ Len(ResponseOf(i).Frames[1].Fields[2].Values) = 2

\* C13: within one QueryData call the HTTP requests (the calls of client.Do)
\* are issued one query at a time and once: at most one request per query,
\* in batch order, none before the response of every preceding query is
\* recorded and the preceding request is answered, and none again for a
\* query whose request failed or timed out.
C13_SequentialAttemptOnce ==
    /\ \A k \in 1..Len(requests) :
          LET i == requests[k].query
          IN  /\ i \in 1..Len(queries)
              /\ \A l \in 1..Len(requests) :
                     k < l => i < requests[l].query
              /\ \A j \in 1..(i - 1) : Recorded(j)
              /\ IF k = Len(requests) /\ pc = "await"
                 THEN i = qi /\ ~Recorded(i) /\ i \notin DOMAIN replies
                 ELSE i \in DOMAIN replies
    /\ \A i \in DOMAIN replies :
          /\ Cardinality(RequestsFor(i)) = 1
          /\ (replies[i].k \in {"transport", "read"} /\ pc # "await")
                => /\ Recorded(i)
                   /\ ResponseOf(i).Error # NoError
                   /\ qi > i

\* C13 witness: the call returned after two requests, one per query, the
\* first of which timed out
C13_Witness ==
    /\ pc = "done"
    /\ Len(requests) = 2
    /\ requests[1].query = 1 /\ requests[2].query = 2
    /\ replies[1].k = "transport"
    /\ replies[1].cause = <<"context deadline exceeded">>

\* The time of the row QueryData builds for a point whose timestamp parses,
\* and the zero time for every other timestamp
RowTime(timestamp) ==
    IF IsString(timestamp) /\ ~ParseRFC3339(timestamp.s).err
    THEN ParseRFC3339(timestamp.s).time
    ELSE ZeroTime

\* C11: a timestamp that does not parse never fails the record or the
\* query: once the fetch of a query of a supported type succeeded, the call
\* goes on, the query's response is recorded without error and its frame has
\* one row per upstream record with a string xml field, whatever the
\* record's timestamp is (well-formed, malformed, not a string, absent), the
\* row's time being the zero time when the timestamp did not parse.
C11_UnparsedTimestampIsZeroTime ==
    \A i \in DOMAIN fetched :
        (fetched[i].ok /\ Supported(ModelOf(i).Type)) =>
            LET kept == WithXml(replies[i].body.json.records)
            IN  /\ pc # "panicked"
                /\ Recorded(i)
                /\ ResponseOf(i).Error = NoError
                /\ Len(ResponseOf(i).Frames) = 1
                /\ LET times == ResponseOf(i).Frames[1].Fields[1].Values
                   IN  /\ DOMAIN times = 1..Len(kept)
                       /\ \A k \in 1..Len(kept) :
                              times[k] = RowTime(kept[k].timestamp)

\* What holds of C11: a timestamp that is a string and does not parse gives
\* a row with the zero time, and the query succeeds
C11_MalformedTextIsZeroTime ==
    \A i \in DOMAIN fetched :
        (/\ fetched[i].ok /\ Supported(ModelOf(i).Type)
         /\ \A k \in 1..Len(fetched[i].data) : IsString(fetched[i].data[k].timestamp))
        => /\ Recorded(i)
           /\ ResponseOf(i).Error = NoError
           /\ \A k \in 1..Len(fetched[i].data) :
                  ResponseOf(i).Frames[1].Fields[1].Values[k] =
                      RowTime(fetched[i].data[k].timestamp)

\* C11 case: a record with a string xml field and no string timestamp was
\* fetched for a query of a supported type
C11_Witness ==
    \E i \in DOMAIN fetched :
        /\ fetched[i].ok /\ Supported(ModelOf(i).Type)
        /\ \E k \in 1..Len(fetched[i].data) : ~IsString(fetched[i].data[k].timestamp)

----------------------------------------------------------------------------
(* Specification of the extraction: one call of extractFirstInteger *)

InitExtract ==
    /\ input \in ExtractInputs
    /\ result = None
    /\ address = <<>>
    /\ requests = <<>>
    /\ QueryIdle
    /\ ResourceIdle
    /\ HealthIdle

Extract ==
    /\ result = None
    /\ result' = [value |-> extractFirstInteger(input)]
    /\ UNCHANGED <<address, requests, input, queryVars, resourceVars, healthVars>>

NextExtract == Extract

SpecExtract == InitExtract /\ [][NextExtract]_vars

----------------------------------------------------------------------------
(* LoadPluginSettings and Datasource.CheckHealth *)

\* json.Unmarshal(source.JSONData, &settings): doc is the settings document,
\* "malformed" when the bytes are not JSON (the empty input included)
LoadPluginSettings(doc) ==
    CASE doc.k = "malformed" ->
             [err |-> TRUE, text |-> <<"could not unmarshal PluginSettings json: ">>
                                     \o <<"unexpected end of JSON input">>]
      [] doc.k = "null" -> [err |-> FALSE, settings |-> [Address |-> <<>>]]
      [] OTHER ->
             LET a == Field(doc.address)
             IN  IF a.err
                 THEN [err |-> TRUE,
                       text |-> <<"could not unmarshal PluginSettings json: ">>
                                \o <<"json: cannot unmarshal number into Go struct field PluginSettings.address of type string">>]
                 ELSE [err |-> FALSE, settings |-> [Address |-> a.s]]

HealthResult(status, message) == [Status |-> status, Message |-> message]

CheckHealthRequiresScheme(doc) ==
    LET loaded == LoadPluginSettings(doc)
    IN  IF loaded.err
        THEN HealthResult("ERROR", "Unable to load settings")
        ELSE IF loaded.settings.Address = <<>>
                \/ (~HasPrefix(loaded.settings.Address, SchemeHttp)
                    /\ ~HasPrefix(loaded.settings.Address, SchemeHttps))
        THEN HealthResult("ERROR", "Address is missing")
        ELSE HealthResult("OK", "Data source is working")
CheckHealth(doc) ==
    LET loaded == LoadPluginSettings(doc)
    IN  IF loaded.err
        THEN HealthResult("ERROR", "Unable to load settings")
        ELSE IF loaded.settings.Address = <<>>
        THEN HealthResult("ERROR", "Address is missing")
        ELSE HealthResult("OK", "Data source is working")

SettingsDoc(addr) == [k |-> "object", address |-> addr]

SettingsDocs ==
    { [k |-> "malformed"], [k |-> "null"],
      SettingsDoc(JAbsent), SettingsDoc(JNull), SettingsDoc(JNumber) }
    \cup {SettingsDoc(JString(a)) :
             a \in Addresses \cup TextsUpTo({"h", ":", "/"}, MaxTextLen)}

InitHealth ==
    /\ address \in Addresses
    /\ requests = <<>>
    /\ QueryIdle
    /\ ExtractIdle
    /\ ResourceIdle
    /\ HealthIdle

\* One health check of the host (datasource.go:269-291)
HealthCheck ==
    /\ healthRes = None
    /\ \E doc \in SettingsDocs :
          /\ settingsDoc' = doc
          /\ healthRes' = CheckHealth(doc)
    /\ UNCHANGED <<address, requests, queryVars, extractVars, resourceVars>>

NextHealth == HealthCheck

SpecHealth == InitHealth /\ [][NextHealth]_vars

----------------------------------------------------------------------------
(* Datasource.CallResource and Datasource.getDevices *)

ErrorOpen == <<"{", "\"", "error", "\"", ":", " ", "\"">>
ErrorClose == <<"\"", "}">>

\* The body `{"error": "<message>"}` as the code writes it: the message is
\* pasted between the quotes as it is
ErrorBody(message) == ErrorOpen \o message \o ErrorClose

ResourceResponse(status, headers, body) ==
    [Status |-> status, Headers |-> headers, Body |-> body]

NoHeaders == [h \in {} |-> <<>>]
JsonHeaders == [h \in {"Content-Type"} |-> <<"application/json">>]

\* The checks of getDevices before its request (datasource.go:324-335)
DevicesPreconditions(addr) ==
    IF addr = <<>>
    THEN Failure(<<"Datasource address is not configured">>)
    ELSE IF ~HasPrefix(addr, SchemeHttp) /\ ~HasPrefix(addr, SchemeHttps)
    THEN Failure(<<"Datasource address must include http:// or https://">>)
    ELSE Passed

DevicesRequest(addr) ==
    [method |-> "GET", url |-> addr \o <<"/devices">>, timeout |-> TimeoutSeconds]

\* getDevices from the answer of client.Get on (datasource.go:340-376).
\* reply.k: "transport" (client.Get failed), "read" (io.ReadAll failed) or
\* "http" with the status and the bytes of the body
CompleteDevices(request, reply) ==
    CASE reply.k = "transport" ->
             ResourceResponse(StatusInternalServerError, NoHeaders,
                 ErrorBody(<<"Failed to fetch devices: ">>
                           \o TransportErrorText("Get", request.url, reply.cause)))
      [] reply.k = "read" ->
             ResourceResponse(StatusInternalServerError, NoHeaders,
                 ErrorBody(<<"Failed to read response: ">> \o reply.cause))
      [] reply.status # StatusOK ->
             ResourceResponse(reply.status, NoHeaders,
                 ErrorBody(<<"API returned status ">> \o FormatInt(reply.status)
                           \o <<": ">> \o reply.body))
      [] OTHER -> ResourceResponse(StatusOK, JsonHeaders, reply.body)

ResourcePaths == {<<"devices">>, <<"devices/">>, <<>>}

DeviceList ==
    <<"[", "{", "\"", "id", "\"", ":", "\"", "d", "\"", "}", "]">>

DevicesBodies ==
    TextsUpTo({"a", "\"", "\\", "\n"}, MaxBodyLen) \cup {DeviceList, <<"boom">>}

DevicesReplies ==
    { [k |-> "transport", cause |-> <<"dial tcp: connection refused">>],
      [k |-> "read", cause |-> <<"unexpected EOF">>] }
    \cup {[k |-> "http", status |-> st, body |-> b] :
             st \in {StatusOK, 500, 404}, b \in DevicesBodies}

InitResource ==
    /\ address \in Addresses
    /\ requests = <<>>
    /\ QueryIdle
    /\ ExtractIdle
    /\ ResourceIdle
    /\ HealthIdle

\* CallResource up to the request of getDevices (datasource.go:301-340)
CallResource ==
    /\ resPc = "idle"
    /\ \E path \in ResourcePaths :
          /\ resPath' = path
          /\ IF path # <<"devices">>
             THEN /\ resResp' = ResourceResponse(StatusNotFound, NoHeaders,
                                    ErrorBody(<<"Resource not found">>))
                  /\ resPc' = "sent"
                  /\ UNCHANGED requests
             ELSE LET pre == DevicesPreconditions(address)
                  IN  IF ~pre.ok
                      THEN /\ resResp' = ResourceResponse(StatusInternalServerError,
                                             NoHeaders, ErrorBody(pre.err))
                           /\ resPc' = "sent"
                           /\ UNCHANGED requests
                      ELSE /\ requests' = Append(requests,
                                  [query |-> 0, request |-> DevicesRequest(address)])
                           /\ resPc' = "await"
                           /\ UNCHANGED resResp
    /\ UNCHANGED <<address, resReply, queryVars, extractVars, healthVars>>

\* The answer of client.Get arrives and the response is sent
DevicesAnswer ==
    /\ resPc = "await"
    /\ \E reply \in DevicesReplies :
          /\ resReply' = reply
          /\ resResp' = CompleteDevices(requests[Len(requests)].request, reply)
    /\ resPc' = "sent"
    /\ UNCHANGED <<address, requests, resPath, queryVars, extractVars, healthVars>>

NextResource == CallResource \/ DevicesAnswer

SpecResource == InitResource /\ [][NextResource]_vars

----------------------------------------------------------------------------
(* Properties of the extraction (checked under SpecExtract) *)

HasDigit(text) == \E k \in 1..Len(text) : IsDigit(text[k])

\* The leftmost maximal run of decimal digits of a text that has a digit
LeadingRun(text) ==
    LET first == CHOOSE k \in 1..Len(text) :
                     IsDigit(text[k]) /\ \A j \in 1..(k - 1) : ~IsDigit(text[j])
        last == CHOOSE k \in first..Len(text) :
                    /\ \A j \in first..k : IsDigit(text[j])
                    /\ k = Len(text) \/ ~IsDigit(text[k + 1])
    IN  SubSeq(text, first, last)

\* n is the numeral of the value of the digit string run: run is n behind
\* some zeros, and n has no leading zero
IsValueOf(n, run) ==
    /\ \E z \in 0..(Len(run) - 1) : run = Rep("0", z) \o n
    /\ Len(n) = 1 \/ Head(n) # "0"

RunValue(run) ==
    CHOOSE n \in {SubSeq(run, k, Len(run)) : k \in 1..Len(run)} : IsValueOf(n, run)

\* C6: for a text with a digit the result is the numeric value of
\* its first maximal digit run, whatever the run's length; for a text
\* without a digit it is 0.
C6_FirstRunValueAnyLength ==
    result # None =>
        IF HasDigit(input)
        THEN IsValueOf(result.value, LeadingRun(input))
        ELSE result.value = Zero

\* What the code does instead (C6): for a text with a digit the result is
\* the numeric value of its first maximal digit run when that value is at
\* most the largest int (2^63 - 1), and the largest int when the value is
\* greater; for a text without a digit it is 0.  Signs and decimal points
\* are not read.
C6_FirstRunValueSaturating ==
    result # None =>
        IF HasDigit(input)
        THEN LET v == RunValue(LeadingRun(input))
             IN  result.value = IF NumLE(v, MaxInt64) THEN v ELSE MaxInt64
        ELSE result.value = Zero

\* C6 witness: a run whose value exceeds the largest int was extracted
C6_Witness ==
    /\ result # None
    /\ HasDigit(input)
    /\ ~NumLE(RunValue(LeadingRun(input)), MaxInt64)
    /\ result.value = MaxInt64

----------------------------------------------------------------------------
(* Properties of the health check (checked under SpecHealth) *)

\* The settings document does not decode into PluginSettings
DecodeFails(doc) ==
    \/ doc.k = "malformed"
    \/ doc.k = "object" /\ doc.address.k \notin {"absent", "null", "string"}

\* The address a decodable settings document gives
DecodedAddress(doc) ==
    IF doc.k = "object" /\ doc.address.k = "string" THEN doc.address.s ELSE <<>>

\* C8: CheckHealth reports an error exactly when the settings do not decode
\* or the decoded address is empty, reports ok otherwise (an address
\* without a scheme included), and issues no HTTP request.
C8_HealthOnlyNeedsAddress ==
    healthRes # None =>
        /\ healthRes.Status \in {"OK", "ERROR"}
        /\ healthRes.Status = "ERROR" <=>
              (DecodeFails(settingsDoc) \/ DecodedAddress(settingsDoc) = <<>>)
        /\ requests = <<>>

\* C8 witness: an address without http:// or https:// was reported healthy
C8_Witness ==
    /\ healthRes # None
    /\ healthRes.Status = "OK"
    /\ settingsDoc.k = "object"
    /\ settingsDoc.address = JString(Ftp)

----------------------------------------------------------------------------
(* Properties of the device-list endpoint (checked under SpecResource) *)

JsonEscapes == {"\"", "\\", "/", "b", "f", "n", "r", "t"}
ControlCharacters == {"\n", "\t", "\r"}

\* What follows the closing quote of a JSON string whose opening quote has
\* just been read: ok is FALSE when the string is not well formed
RECURSIVE AfterString(_)
AfterString(s) ==
    IF s = <<>> THEN [ok |-> FALSE, rest |-> <<>>]
    ELSE IF Head(s) = "\"" THEN [ok |-> TRUE, rest |-> Tail(s)]
    ELSE IF Head(s) \in ControlCharacters THEN [ok |-> FALSE, rest |-> <<>>]
    ELSE IF Head(s) = "\\"
    THEN IF Len(s) >= 2 /\ s[2] \in JsonEscapes
         THEN AfterString(Tail(Tail(s)))
         ELSE [ok |-> FALSE, rest |-> <<>>]
    ELSE AfterString(Tail(s))

\* The bytes are a well-formed JSON object {"error": string}
IsErrorObject(body) ==
    /\ HasPrefix(body, ErrorOpen)
    /\ LET end == AfterString(SubSeq(body, Len(ErrorOpen) + 1, Len(body)))
       IN  end.ok /\ end.rest = <<"}">>

\* C7: the devices endpoint forwards a 200 answer byte for byte with status
\* 200 and a JSON content type, answers without a request when the address
\* is empty or has no http(s) scheme, and on every failure answers a
\* non-200 status (the upstream one when there is one) with a body that is
\* a well-formed JSON object {"error": string}.
C7_DevicesEndpoint ==
    (resPc = "sent" /\ resPath = <<"devices">>) =>
        /\ (address = <<>> \/ LacksScheme(address)) => requests = <<>>
        /\ IF resReply # None /\ resReply.k = "http" /\ resReply.status = StatusOK
           THEN resResp = ResourceResponse(StatusOK, JsonHeaders, resReply.body)
           ELSE /\ resResp.Status # StatusOK
                /\ (resReply # None /\ resReply.k = "http")
                      => resResp.Status = resReply.status
                /\ IsErrorObject(resResp.Body)

====
